---- MODULE Spec2Model ----
(***************************************************************************)
(* Model of services/telegram-bot/sandbox.py: DockerSandbox.               *)
(*                                                                         *)
(* Each execute() invocation is a cooperative asyncio task.  An action of  *)
(* this module is the code that runs between two suspension points of     *)
(* such a task (an await that really suspends), or a step of the           *)
(* environment: the docker CLI, the docker daemon, the containers, the     *)
(* clock.  Time is counted in ticks of one second.                         *)
(***************************************************************************)
EXTENDS Integers, Sequences, FiniteSets, TLC

\* ---- bounds of the model ----
NumCalls == 2        \* execute() invocations made by the callers
MaxPermits == 2      \* largest max_concurrent given to the constructor
MaxTimeout == 2      \* largest timeout (seconds) given by constructor or caller
MaxTime == 3         \* the clock stops here
MaxExitCode == 1     \* the sandboxed command exits with a code in 0..MaxExitCode
Grace == 1           \* the "bounded grace" (seconds) a caller would allow
NumTokens == 2       \* values secrets.token_hex(8) can return
BotDeadline == 1     \* the timeout of the handlers, in ticks of the model
MaxPiped == 2        \* pieces a process writes to one of its pipes
OutputCalls == 1     \* execute() calls whose output is followed
MaxDays == 2         \* UTC dates the clock goes through
NumSlots == 2        \* handler tasks of handle_message that can exist at once
MaxMsgs == 7         \* messages dispatched in one behaviour
MaxPastes == 3       \* create_paste calls in one behaviour
MaxPasteTicks == 5   \* steps of the clock of the paste server
TickSeconds == 600   \* seconds in one step of that clock
MaxIssued == 2       \* invocations whose container names are remembered
NumTasks == 4        \* tasks contending for the semaphore under steady load

\* ---- program constants ----
MAX_TELEGRAM_MESSAGE_LENGTH == 4096
FREE_QUERY_LIMIT == 5
PASTE_TTL == 1200
MsPerSecond == 1000  \* int((time.time() - start_time) * 1000)

Calls == 1..NumCalls
ExitCodes == 0..MaxExitCode
NoCode == -2         \* process.returncode is None: the process has not exited
NoTime == -1         \* a local of execute() that is not assigned yet
NoneArg == -1        \* timeout: Optional[int] = None
KilledExitCode == 137  \* exit code of docker run when its container is killed
None == "<None>"     \* error: Optional[str] = None
NoResult == [kind |-> "none"]
NoRequest == [kind |-> "none"]

\* class SandboxImage(Enum), in definition order
ALPINE == "alpine:latest"
BLACKARCH == "blackarchlinux/blackarch:latest"
ImageOrder == <<ALPINE, BLACKARCH>>
SandboxImage == {ImageOrder[i] : i \in 1..Len(ImageOrder)}

Tasks == 1..NumTasks

\* messages of the exceptions the calls inside the try block raise
Runtime == {"ok", "daemon_down", "no_cli"}
LaunchErrors == {"[Errno 2] No such file or directory: 'docker'"}
ReadErrors == {"[Errno 5] Input/output error"}

VARIABLES
    max_concurrent,   \* self.max_concurrent
    default_timeout,  \* self.default_timeout
    semValue,         \* self._semaphore._value
    waiters,          \* self._semaphore._waiters, FIFO
    now,              \* time.time()
    docker,           \* the runtime: "ok", "daemon_down" (the docker CLI
                      \* starts but cannot reach the daemon), "no_cli" (the
                      \* docker executable cannot be started)
    pc,               \* position of each execute() task
    timeout,          \* local timeout of the call (after "timeout or default")
    start_time,       \* local start_time
    name,             \* local container_name
    nextToken,        \* source of secrets.token_hex(8)
    procStart,        \* time at which wait_for(communicate(), timeout) began
    cont,             \* the container / docker run process of the call
    procExit,         \* process.returncode of the docker run process
    exitedInTime,     \* the process exited by itself before the deadline
    holds,            \* the task is inside "async with self._semaphore"
    acquires,         \* number of permits the task acquired
    releases,         \* number of permits the task released
    killAttempted,    \* _kill_container was called by the task
    killTarget,       \* the name given to docker kill
    killRc,           \* outcome of the docker kill: none, raised, zero, nonzero
    path,             \* exit path taken by the task
    result,           \* SandboxResult returned to the caller
    nresults,         \* number of SandboxResults the call returned
    raised,           \* an exception left execute()
    probe,            \* answer of check_docker_available() in this situation
    request,          \* arguments of the execute() call being prepared
    docker_argv,      \* docker_args as handed to create_subprocess_exec
    applied_timeout,  \* timeout after line 70
    via,              \* who called execute(): a bot handler or another caller
    issued,           \* token and container name of the latest invocations
    taskPc,           \* position of each task around "async with self._semaphore"
    images_pulled,    \* self._images_pulled
    pullPc,           \* position of the pull_images() task
    pullAt,           \* index of the image the loop of pull_images() is at
    pullRc,           \* outcome of docker pull per image
    pullLog,          \* records logged by pull_images()
    pullRaised,       \* an exception left pull_images()
    startup,          \* outcome of post_init() in bot.py
    piped,            \* what each docker run process wrote to its pipes
    text,             \* stdout and stderr of the SandboxResult returned
    killLog,          \* container names in the error records of _kill_container
    admin_users,      \* telegram ids in the table admin_users
    bot,              \* per update: the handler's position, inputs and reply
    today,            \* the UTC date, as the number of the day
    daily,            \* Redis: the counter under the daily key of user and date
    handlers,         \* per handler task of handle_message: position and locals
    admitted,         \* per user and date: queries let through and not failed
    returned,         \* per user: chat_completion calls that returned
    handled,          \* messages dispatched so far
    ptime,            \* time.time() of the paste server, in seconds
    redis_pastes,     \* Redis: value and expiry under each paste key
    created,          \* the create_paste calls that returned, oldest first
    response          \* the latest answer of the paste server's HTTP handlers

vars == <<max_concurrent, default_timeout, semValue, waiters, now, docker,
          pc, timeout, start_time, name, nextToken, procStart, cont,
          procExit, exitedInTime, holds, acquires, releases, killAttempted,
          killTarget, killRc, path, result, nresults, raised, probe,
          request, docker_argv, applied_timeout, via, issued, taskPc,
          images_pulled, pullPc, pullAt, pullRc, pullLog, pullRaised, startup,
          piped, text, killLog, admin_users, bot, today, daily, handlers,
          admitted, returned, handled, ptime, redis_pastes, created,
          response>>

envVars == <<docker>>
dockerCli == docker # "no_cli"
daemonUp == docker = "ok"
ctorVars == <<max_concurrent, default_timeout>>
pipeVars == <<piped>>
killVars == <<killAttempted, killTarget, killRc, killLog>>
retVars == <<path, result, text, nresults, raised, releases>>
semVars == <<semValue, waiters, holds, acquires>>
localVars == <<timeout, start_time, name, nextToken, procStart>>
procVars == <<cont, procExit, exitedInTime>>
botVars == <<admin_users, bot>>
quotaVars == <<today, daily, handlers, admitted, returned, handled>>
pasteVars == <<ptime, redis_pastes, created, response>>
sideVars == <<quotaVars, pasteVars>>
argVars == <<request, docker_argv, applied_timeout, via, issued, botVars,
             sideVars>>
taskVars == <<taskPc>>
pullVars == <<images_pulled, pullPc, pullAt, pullRc, pullLog, pullRaised>>
appVars == <<argVars, taskVars, pullVars, startup>>

\* ---- SandboxResult, as the three return statements build it ----
\* a faulty variant: the elapsed time is counted from the start of the process
ElapsedMs_fromLaunch(c) == (now - procStart[c]) * MsPerSecond

\* int((time.time() - start_time) * 1000), start_time taken at line 71
ElapsedMs(c) == (now - start_time[c]) * MsPerSecond

\* a faulty variant: a non-zero exit code is replaced by the -1 sentinel
CompletedResult_sentinel(code, ms) ==
    [kind |-> "result", exit_code |-> IF code = 0 THEN 0 ELSE -1,
     execution_time_ms |-> ms, timed_out |-> FALSE, error |-> None]

CompletedResult(code, ms) ==
    [kind |-> "result", exit_code |-> code, execution_time_ms |-> ms,
     timed_out |-> FALSE, error |-> None]

\* a faulty variant: the timeout result does not set timed_out
TimeoutResult_unflagged(ms) ==
    [kind |-> "result", exit_code |-> -1, execution_time_ms |-> ms,
     timed_out |-> FALSE, error |-> None]

TimeoutResult(ms) ==
    [kind |-> "result", exit_code |-> -1, execution_time_ms |-> ms,
     timed_out |-> TRUE, error |-> None]

\* a faulty variant: the exception message is dropped
ErrorResult_empty(msg, ms) ==
    [kind |-> "result", exit_code |-> -1, execution_time_ms |-> ms,
     timed_out |-> FALSE, error |-> ""]

\* a faulty variant: a failure after the deadline is an error and a timeout
ErrorResult_flagged(msg, ms) ==
    [kind |-> "result", exit_code |-> -1, execution_time_ms |-> ms,
     timed_out |-> TRUE, error |-> msg]

ErrorResult(msg, ms) ==
    [kind |-> "result", exit_code |-> -1, execution_time_ms |-> ms,
     timed_out |-> FALSE, error |-> msg]

\* ---- stdout and stderr of the SandboxResult ----
\* what a process can write in one piece: text, or bytes that are not UTF-8
Chunks == {"ok", "<ff>"}
ValidUtf8 == {"ok"}
Replacement == "<U+FFFD>"
Streams == {"out", "err"}
NoBytes == [s \in Streams |-> <<>>]

\* bytes.decode("utf-8", errors="replace")
Decode(bytes) ==
    [i \in 1..Len(bytes) |->
        IF bytes[i] \in ValidUtf8 THEN bytes[i] ELSE Replacement]

\* the two strings of a result, each as the sequence of its pieces; the empty
\* string is the empty sequence
NoText == [stdout |-> <<>>, stderr |-> <<>>]

\* lines 114-115
CompletedText(bytes) ==
    [stdout |-> Decode(bytes.out), stderr |-> Decode(bytes.err)]

\* a faulty variant: the timeout result returns what was read before the
\* deadline
TimeoutText_partial(bytes, seconds) ==
    [stdout |-> Decode(bytes.out), stderr |-> Decode(bytes.err)]

\* lines 126-127
TimeoutText(bytes, seconds) ==
    [stdout |-> <<>>,
     stderr |-> <<"Command timed out after ", ToString(seconds), " seconds">>]

\* lines 138-139
ErrorText == [stdout |-> <<>>, stderr |-> <<>>]

\* stdout and stderr of the result with which call c returns by way "how"
ResultText(c, how) ==
    CASE how = "completed" -> CompletedText(piped[c])
      [] how = "timeout" -> TimeoutText(piped[c], timeout[c])
      [] OTHER -> ErrorText

\* a faulty variant: only an absent timeout is replaced by the default
EffectiveTimeout_zeroKept(arg) ==
    IF arg = NoneArg THEN default_timeout ELSE arg

\* timeout = timeout or self.default_timeout (None and 0 are falsy)
EffectiveTimeout(arg) ==
    IF arg = NoneArg \/ arg = 0 THEN default_timeout ELSE arg

TimeoutArgs == {NoneArg} \cup (0..MaxTimeout)

\* ---- asyncio.Semaphore(max_concurrent) ----
\* a faulty variant: the semaphore admits every caller
Locked_never == FALSE

\* Semaphore.locked(): no permit left, or somebody is queued already
Locked == semValue = 0 \/ waiters # <<>>

\* a faulty variant: leaving the section gives no permit back
release_lost(v, w) == [value |-> v, waiters |-> w, woken |-> 0]

\* a faulty variant: the permit is handed to the newest waiter
release_newest(v, w) ==
    IF w = <<>> THEN [value |-> v + 1, waiters |-> w, woken |-> 0]
    ELSE [value |-> v, waiters |-> SubSeq(w, 1, Len(w) - 1),
          woken |-> w[Len(w)]]

\* Semaphore.release(): one more permit, handed to the first waiter if any
release(v, w) ==
    IF w = <<>> THEN [value |-> v + 1, waiters |-> w, woken |-> 0]
    ELSE [value |-> v, waiters |-> Tail(w), woken |-> Head(w)]

\* a faulty variant: only a failed launch is caught
CaughtByExcept_launchOnly(kind) == kind = "launch"

\* "except Exception": the exceptions of the try block it catches
CaughtByExcept(kind) == kind \in {"launch", "read"}

\* a faulty variant: the process is created outside the guarded section
CanLaunch_unguarded(c) == pc[c] \in {"waiting", "acquired"}

\* a faulty variant: the launch waits until an image has been pulled in advance
CanLaunch_prewarmed(c) == pc[c] = "acquired" /\ images_pulled # {}

\* the process is created inside "async with self._semaphore"
CanLaunch(c) == pc[c] = "acquired"

\* a faulty variant: the deadline is counted from the entry into execute()
Deadline_fromEntry(c) == start_time[c] + timeout[c]

\* wait_for(..., timeout=timeout) starts when communicate() is first awaited
Deadline(c) == procStart[c] + timeout[c]

\* a faulty variant: the kill names another invocation's container
KillTarget_other(c) == name[IF c = 1 THEN NumCalls ELSE c - 1]

\* docker kill container_name
KillTarget(c) == name[c]

\* DockerSandbox(max_concurrent, default_timeout): the state after __init__
NewSandbox(mc, dt) ==
    /\ max_concurrent = mc
    /\ default_timeout = dt
    /\ semValue = max_concurrent
    /\ waiters = <<>>
    /\ now = 0
    /\ docker \in Runtime
    /\ pc = [c \in Calls |-> "idle"]
    /\ timeout = [c \in Calls |-> 0]
    /\ start_time = [c \in Calls |-> NoTime]
    /\ name = [c \in Calls |-> 0]
    /\ nextToken = 1
    /\ procStart = [c \in Calls |-> NoTime]
    /\ cont = [c \in Calls |-> "none"]
    /\ procExit = [c \in Calls |-> NoCode]
    /\ exitedInTime = [c \in Calls |-> FALSE]
    /\ holds = [c \in Calls |-> FALSE]
    /\ acquires = [c \in Calls |-> 0]
    /\ releases = [c \in Calls |-> 0]
    /\ killAttempted = [c \in Calls |-> FALSE]
    /\ killTarget = [c \in Calls |-> 0]
    /\ killRc = [c \in Calls |-> "none"]
    /\ path = [c \in Calls |-> "none"]
    /\ result = [c \in Calls |-> NoResult]
    /\ nresults = [c \in Calls |-> 0]
    /\ raised = [c \in Calls |-> FALSE]
    /\ probe = "none"
    /\ images_pulled = {}
    /\ piped = [c \in Calls |-> NoBytes]
    /\ text = [c \in Calls |-> NoText]
    /\ killLog = {}

\* ---- the users of the bot and the updates they send ----
Users == {1, 2}      \* telegram ids
Admins == {1}        \* the ids with a row in admin_users
NoUpdate == [hpc |-> "idle", user |-> 0, nargs |-> 0, reply |-> "none",
             pastes |-> 0, outlen |-> 0]

\* ---- the rate limiter and the messages it meters ----
Days == 1..MaxDays
Slots == 1..NumSlots
NoMessage == [hpc |-> "idle", user |-> 0, day |-> 0, reply |-> "none"]

\* ---- the paste server ----
\* values secrets.token_urlsafe(16) can return, and an id it never returns
PasteIds == {"id1", "id2"}
AllIds == PasteIds \cup {"id0"}

\* key = f"{PASTE_PREFIX}{paste_id}"
PasteKey(paste_id) == "d1337:paste:" \o paste_id
PasteKeys == {PasteKey(i) : i \in AllIds}
NoEntry == [present |-> FALSE, value |-> <<>>, expires |-> 0]
NoResponse == [route |-> "none", status |-> 0, text |-> ""]

\* nothing has called the sandbox yet
NoCaller ==
    /\ request = NoRequest
    /\ docker_argv = <<>>
    /\ applied_timeout = NoTime
    /\ via = "none"
    /\ issued = <<>>
    /\ admin_users = Admins
    /\ bot = [c \in Calls |-> NoUpdate]
    /\ today = 1
    /\ daily = [u \in Users |-> [d \in Days |-> 0]]
    /\ handlers = [s \in Slots |-> NoMessage]
    /\ admitted = [u \in Users |-> [d \in Days |-> 0]]
    /\ returned = [u \in Users |-> 0]
    /\ handled = 0
    /\ ptime = 0
    /\ redis_pastes = [k \in PasteKeys |-> NoEntry]
    /\ created = <<>>
    /\ response = NoResponse
    /\ taskPc = [t \in Tasks |-> "idle"]
    /\ pullPc = "idle"
    /\ pullAt = 1
    /\ pullRc = [i \in SandboxImage |-> "none"]
    /\ pullLog = {}
    /\ pullRaised = FALSE
    /\ startup = "none"

Init ==
    /\ \E mc \in 1..MaxPermits : NewSandbox(mc, MaxTimeout)
    /\ NoCaller

\* execute() up to the first suspension: lines 70-98.  The fast path of
\* Semaphore.acquire() does not suspend; otherwise the task queues.
EnterWith(c, arg, token) ==
    /\ pc[c] = "idle"
    \* the calls are numbered in the order in which they are made
    /\ \A x \in Calls : x < c => pc[x] # "idle"
    /\ timeout' = [timeout EXCEPT ![c] = EffectiveTimeout(arg)]
    /\ start_time' = [start_time EXCEPT ![c] = now]
    /\ name' = [name EXCEPT ![c] = token]
    /\ IF ~Locked
       THEN /\ semValue' = semValue - 1
            /\ pc' = [pc EXCEPT ![c] = "acquired"]
            /\ holds' = [holds EXCEPT ![c] = TRUE]
            /\ acquires' = [acquires EXCEPT ![c] = @ + 1]
            /\ UNCHANGED waiters
       ELSE /\ waiters' = Append(waiters, c)
            /\ pc' = [pc EXCEPT ![c] = "waiting"]
            /\ UNCHANGED <<semValue, holds, acquires>>
    /\ UNCHANGED <<appVars, ctorVars, pipeVars, now, envVars, procStart, cont, procExit,
                   exitedInTime, killVars, retVars, probe>>

\* execute() where secrets.token_hex(8) gives a value it never gave before
Enter(c, arg) ==
    /\ EnterWith(c, arg, nextToken)
    /\ nextToken' = nextToken + 1

\* leaving "async with self._semaphore" with a return value or an exception;
\* the locals of the call end with it
Leave(c, how, res) ==
    LET r == release(semValue, waiters) IN
    /\ semValue' = r.value
    /\ waiters' = r.waiters
    /\ pc' = [x \in Calls |-> IF x = c THEN "done"
                              ELSE IF x = r.woken THEN "acquired" ELSE pc[x]]
    /\ holds' = [x \in Calls |-> IF x = c THEN FALSE
                                 ELSE IF x = r.woken THEN TRUE ELSE holds[x]]
    /\ acquires' = [x \in Calls |-> IF x = r.woken THEN acquires[x] + 1
                                    ELSE acquires[x]]
    /\ releases' = [releases EXCEPT ![c] = @ + 1]
    /\ path' = [path EXCEPT ![c] = how]
    /\ start_time' = [start_time EXCEPT ![c] = NoTime]
    /\ procStart' = [procStart EXCEPT ![c] = NoTime]
    /\ IF res = NoResult
       THEN /\ raised' = [raised EXCEPT ![c] = TRUE]
            /\ UNCHANGED <<result, text, nresults>>
       ELSE /\ result' = [result EXCEPT ![c] = res]
            /\ text' = [text EXCEPT ![c] = ResultText(c, how)]
            /\ nresults' = [nresults EXCEPT ![c] = @ + 1]
            /\ UNCHANGED raised

\* the handler of an exception raised inside the try block: lines 133-144
Except(c, how, kind, msg) ==
    IF CaughtByExcept(kind)
    THEN Leave(c, how, ErrorResult(msg, ElapsedMs(c)))
    ELSE Leave(c, how, NoResult)

\* await asyncio.create_subprocess_exec(*docker_args, ...) returns a process
\* and wait_for(process.communicate(), timeout) is awaited
LaunchOk(c) ==
    /\ CanLaunch(c)
    /\ dockerCli
    /\ pc' = [pc EXCEPT ![c] = "running"]
    /\ cont' = [cont EXCEPT ![c] = "starting"]
    /\ procStart' = [procStart EXCEPT ![c] = now]
    /\ UNCHANGED <<appVars, ctorVars, pipeVars, semVars, now, envVars, timeout, start_time, name,
                   nextToken, procExit, exitedInTime, killVars, retVars, probe>>

\* await asyncio.create_subprocess_exec(*docker_args, ...) raises
LaunchFail(c, msg) ==
    /\ CanLaunch(c)
    /\ ~dockerCli
    /\ Except(c, "launch_failed", "launch", msg)
    /\ UNCHANGED <<appVars, ctorVars, pipeVars, now, envVars, timeout, name, nextToken, procVars,
                   killVars, probe>>

\* ---- the docker run process and its container (environment) ----

\* the runtime has a container of that name already
NameTaken(c) ==
    \E x \in Calls : x # c /\ name[x] = name[c] /\ cont[x] = "live"

\* the daemon creates the container (after pulling the image if it is absent)
ContainerStart(c) ==
    /\ cont[c] = "starting"
    /\ daemonUp
    /\ ~NameTaken(c)
    /\ cont' = [cont EXCEPT ![c] = "live"]
    /\ UNCHANGED <<appVars, ctorVars, pipeVars, semVars, now, envVars, pc, localVars, procExit,
                   exitedInTime, killVars, retVars, probe>>

\* what the task awaiting communicate() sees of an exit of its process
Observe(c, code) ==
    IF pc[c] = "running"
    THEN /\ procExit' = [procExit EXCEPT ![c] = code]
         /\ exitedInTime' = [exitedInTime EXCEPT ![c] = now < Deadline(c)]
    ELSE UNCHANGED <<procExit, exitedInTime>>

\* docker run cannot reach the daemon: it exits non-zero, no container exists
ContainerRefused(c, code) ==
    /\ cont[c] = "starting"
    /\ ~daemonUp
    /\ code # 0
    /\ cont' = [cont EXCEPT ![c] = "gone"]
    /\ Observe(c, code)
    /\ UNCHANGED <<appVars, ctorVars, pipeVars, semVars, now, envVars, pc, localVars, killVars,
                   retVars, probe>>

\* docker run --name is refused because the name is in use: the process
\* exits non-zero without a container of its own
ContainerConflict(c, code) ==
    /\ cont[c] = "starting"
    /\ daemonUp
    /\ NameTaken(c)
    /\ code # 0
    /\ cont' = [cont EXCEPT ![c] = "gone"]
    /\ Observe(c, code)
    /\ UNCHANGED <<appVars, ctorVars, pipeVars, semVars, now, envVars, pc, localVars, killVars,
                   retVars, probe>>

\* the command exits by itself; --rm removes the container
ProcExit(c, code) ==
    /\ cont[c] = "live"
    /\ cont' = [cont EXCEPT ![c] = "gone"]
    /\ Observe(c, code)
    /\ UNCHANGED <<appVars, ctorVars, pipeVars, semVars, now, envVars, pc, localVars, killVars,
                   retVars, probe>>

\* ---- execute(), after the process was created ----

\* wait_for(process.communicate()) returns: lines 107-119
Complete(c) ==
    /\ pc[c] = "running"
    /\ procExit[c] # NoCode
    /\ Leave(c, "completed", CompletedResult(procExit[c], ElapsedMs(c)))
    /\ UNCHANGED <<appVars, ctorVars, pipeVars, now, envVars, timeout, name, nextToken, procVars,
                   killVars, probe>>

\* process.communicate() raises (a pipe read error): handled at lines 133-144;
\* nothing stops the process
ReadFail(c, msg) ==
    /\ pc[c] = "running"
    /\ Except(c, "read_failed", "read", msg)
    /\ UNCHANGED <<appVars, ctorVars, pipeVars, now, envVars, timeout, name, nextToken, procVars,
                   killVars, probe>>

\* a faulty variant: _kill_container lets the exception of a failed docker
\* kill out, into the handlers of execute()
KillContained_not == FALSE

\* _kill_container: "except Exception" around the docker kill, lines 154-155
KillContained == TRUE

\* wait_for raises asyncio.TimeoutError (line 121); _kill_container (line 122)
\* creates the docker kill process and awaits process.wait()
TimeoutKill(c) ==
    /\ pc[c] = "running"
    /\ now >= Deadline(c)
    /\ dockerCli
    /\ pc' = [pc EXCEPT ![c] = "killwait"]
    /\ killAttempted' = [killAttempted EXCEPT ![c] = TRUE]
    /\ killTarget' = [killTarget EXCEPT ![c] = KillTarget(c)]
    /\ UNCHANGED <<appVars, ctorVars, pipeVars, semVars, now, envVars, localVars, procVars,
                   killRc, killLog, retVars, probe>>

\* wait_for raises asyncio.TimeoutError (line 121); in _kill_container
\* create_subprocess_exec("docker", "kill", ...) raises, which is logged
\* (lines 154-155), and execute() returns lines 123-131
TimeoutKillRaises(c) ==
    /\ pc[c] = "running"
    /\ now >= Deadline(c)
    /\ ~dockerCli
    /\ killAttempted' = [killAttempted EXCEPT ![c] = TRUE]
    /\ killTarget' = [killTarget EXCEPT ![c] = KillTarget(c)]
    /\ killRc' = [killRc EXCEPT ![c] = "raised"]
    /\ killLog' = IF KillContained THEN killLog \cup {KillTarget(c)} ELSE killLog
    /\ IF KillContained
       THEN Leave(c, "timeout", TimeoutResult(ElapsedMs(c)))
       ELSE \E msg \in LaunchErrors : Except(c, "kill_failed", "launch", msg)
    /\ UNCHANGED <<appVars, ctorVars, pipeVars, now, envVars, timeout, name, nextToken, procVars,
                   probe>>

\* the containers docker kill <target> reaches: the live one of that name
KillReaches(target) ==
    {x \in Calls : daemonUp /\ name[x] = target /\ cont[x] = "live"}

\* process.wait() of the docker kill returns (its exit code is not read),
\* and execute() returns lines 123-131
KillFinish(c) ==
    /\ pc[c] = "killwait"
    /\ LET hit == KillReaches(killTarget[c]) IN
       /\ cont' = [x \in Calls |-> IF x \in hit THEN "gone" ELSE cont[x]]
       /\ killRc' = [killRc EXCEPT ![c] = IF hit # {} THEN "zero" ELSE "nonzero"]
       \* a call still waiting for a container that was killed sees its
       \* docker run process exit
       /\ procExit' = [x \in Calls |->
              IF x \in hit /\ x # c /\ pc[x] = "running"
              THEN KilledExitCode ELSE procExit[x]]
       /\ exitedInTime' = [x \in Calls |->
              IF x \in hit /\ x # c /\ pc[x] = "running"
              THEN now < Deadline(x) ELSE exitedInTime[x]]
    /\ Leave(c, "timeout", TimeoutResult(ElapsedMs(c)))
    /\ UNCHANGED <<appVars, ctorVars, pipeVars, now, envVars, timeout, name, nextToken,
                   killAttempted, killTarget, killLog, probe>>

\* ---- check_docker_available(): lines 157-167 ----
\* a faulty variant: the probe only looks whether docker info could be started
check_docker_available_started(rt) == rt # "no_cli"

\* docker info cannot be started: the exception is caught and the answer is
\* False; otherwise the answer is process.returncode == 0
check_docker_available(rt) == IF rt = "no_cli" THEN FALSE ELSE rt = "ok"

CheckDockerAvailable ==
    /\ probe' = IF check_docker_available(docker) THEN "true" ELSE "false"
    /\ UNCHANGED <<appVars, ctorVars, pipeVars, semVars, now, envVars, pc, localVars, procVars,
                   killVars, retVars>>

\* ---- environment ----

\* One second passes while some execute() is in progress (nothing reads the
\* clock otherwise).  The event loop is never blocked, so an expired deadline
\* and a finished communicate() are delivered before time goes on.
Tick ==
    /\ now < MaxTime
    /\ \E c \in Calls : pc[c] \notin {"idle", "done"}
    /\ \A c \in Calls : pc[c] = "running" =>
           /\ now < Deadline(c)
           /\ procExit[c] = NoCode
    /\ now' = now + 1
    /\ UNCHANGED <<appVars, ctorVars, pipeVars, semVars, envVars, pc, localVars, procVars,
                   killVars, retVars, probe>>

\* the runtime stops, comes back, or the docker executable (dis)appears
RuntimeChange(rt) ==
    /\ rt # docker
    /\ docker' = rt
    /\ probe' = "none"
    /\ UNCHANGED <<appVars, ctorVars, pipeVars, semVars, now, pc, localVars, procVars, killVars,
                   retVars>>

Next ==
    \/ \E c \in Calls, arg \in TimeoutArgs : Enter(c, arg)
    \/ \E c \in Calls : LaunchOk(c)
    \/ \E c \in Calls, msg \in LaunchErrors : LaunchFail(c, msg)
    \/ \E c \in Calls : ContainerStart(c)
    \/ \E c \in Calls, code \in ExitCodes : ContainerRefused(c, code)
    \/ \E c \in Calls, code \in ExitCodes : ProcExit(c, code)
    \/ \E c \in Calls : Complete(c)
    \/ \E c \in Calls, msg \in ReadErrors : ReadFail(c, msg)
    \/ \E c \in Calls : TimeoutKill(c)
    \/ \E c \in Calls : TimeoutKillRaises(c)
    \/ \E c \in Calls : KillFinish(c)
    \/ CheckDockerAvailable
    \/ Tick
    \/ \E rt \in Runtime : RuntimeChange(rt)

Spec == Init /\ [][Next]_vars

(***************************************************************************)
(* The arguments of execute(), sandbox.py lines 62-96, and the callers of  *)
(* execute() in bot.py.  Times are in seconds here.                        *)
(***************************************************************************)
\* ---- sandbox = DockerSandbox(): the defaults of __init__ ----
DefaultMaxConcurrent == 5
DefaultTimeout == 60
DefaultMaxMemory == "256m"
DefaultMaxCpus == "0.5"
DefaultMaxPids == 100
DefaultWorkingDir == "/workspace"

\* ---- inputs of the model ----
Commands == {"id", "sleep 300"}
WorkingDirs == {DefaultWorkingDir, "/data"}
Tokens == {"0f1e2d3c4b5a6978", "8796a5b4c3d2e1f0"}
CallerTimeouts == {NoneArg, 0, 30, 120}
Requests ==
    [command : Commands, image : SandboxImage, timeout : CallerTimeouts,
     enable_network : BOOLEAN, working_dir : WorkingDirs]

\* a faulty variant: the random suffix is left out of the name
ContainerName_fixed(token) == "d1337-sandbox-"

\* container_name = f"d1337-sandbox-{secrets.token_hex(8)}"
ContainerName(token) == "d1337-sandbox-" \o token

\* a faulty variant: the network is never taken away
NetworkArgs_never(enable_network) == <<>>

\* if not enable_network: docker_args.extend(["--network", "none"])
NetworkArgs(enable_network) ==
    IF ~enable_network THEN <<"--network", "none">> ELSE <<>>

\* a faulty variant: a networked run keeps its capabilities
docker_args_capable(cname, r) ==
    <<"docker", "run", "--rm", "--name", cname>>
    \o (IF r.enable_network THEN <<>> ELSE <<"--cap-drop", "ALL">>)
    \o <<"--security-opt", "no-new-privileges", "--read-only",
         "--tmpfs", "/tmp:rw,noexec,nosuid,size=64m",
         "--tmpfs", r.working_dir \o ":rw,noexec,nosuid,size=32m",
         "--memory", DefaultMaxMemory, "--cpus", DefaultMaxCpus,
         "--pids-limit", ToString(DefaultMaxPids),
         "--user", "1000:1000", "--workdir", r.working_dir>>
    \o NetworkArgs(r.enable_network)
    \o <<r.image, "/bin/sh", "-c", r.command>>

\* docker_args, lines 74-96
docker_args(cname, r) ==
    <<"docker", "run", "--rm", "--name", cname,
      "--cap-drop", "ALL",
      "--security-opt", "no-new-privileges",
      "--read-only",
      "--tmpfs", "/tmp:rw,noexec,nosuid,size=64m",
      "--tmpfs", r.working_dir \o ":rw,noexec,nosuid,size=32m",
      "--memory", DefaultMaxMemory,
      "--cpus", DefaultMaxCpus,
      "--pids-limit", ToString(DefaultMaxPids),
      "--user", "1000:1000",
      "--workdir", r.working_dir>>
    \o NetworkArgs(r.enable_network)
    \o <<r.image, "/bin/sh", "-c", r.command>>

\* the latest MaxIssued invocations, oldest first
Remember(seq, e) ==
    IF Len(seq) < MaxIssued THEN Append(seq, e) ELSE Append(Tail(seq), e)

\* execute() up to the launch: the timeout it applies and the command line
\* it hands to create_subprocess_exec
PrepareLaunch(r, token, who) ==
    /\ request' = r
    /\ applied_timeout' = EffectiveTimeout(r.timeout)
    /\ docker_argv' = docker_args(ContainerName(token), r)
    /\ via' = who
    /\ issued' = Remember(issued, [token |-> token,
                                    name |-> ContainerName(token)])
    /\ UNCHANGED <<ctorVars, pipeVars, semVars, now, envVars, pc, localVars, procVars,
                   killVars, retVars, probe, taskVars, pullVars, startup,
                   botVars, sideVars>>

\* any caller of sandbox.execute(command, image, timeout, enable_network,
\* working_dir)
DirectCall(r, token) == PrepareLaunch(r, token, "caller")

\* the handlers of /exec, /pt and /do
Handlers == {"exec_command", "pt_command", "do_command"}
HandlerImage(h) == IF h = "pt_command" THEN BLACKARCH ELSE ALPINE
HandlerNetwork(h) == h = "pt_command"

\* a faulty variant: the handlers give every image one minute
BotTimeout_flat(image) == 60

\* timeout=120 if image == SandboxImage.BLACKARCH else 60
BotTimeout(image) == IF image = BLACKARCH THEN 120 ELSE 60

\* _execute_in_sandbox(update, command, image, enable_network)
BotCommand(h, command, token) ==
    PrepareLaunch([command |-> command, image |-> HandlerImage(h),
                   timeout |-> BotTimeout(HandlerImage(h)),
                   enable_network |-> HandlerNetwork(h),
                   working_dir |-> DefaultWorkingDir], token, h)

InitArgs ==
    /\ NewSandbox(DefaultMaxConcurrent, DefaultTimeout)
    /\ NoCaller

NextArgs ==
    \/ \E r \in Requests, token \in Tokens : DirectCall(r, token)
    \/ \E h \in Handlers, command \in Commands, token \in Tokens :
           BotCommand(h, command, token)

SpecArgs == InitArgs /\ [][NextArgs]_vars

(***************************************************************************)
(* The semaphore under steady load: tasks that enter "async with           *)
(* self._semaphore" (line 98), stay in the section for a while, leave it   *)
(* and come back.  What a task does inside the section is left out.        *)
(***************************************************************************)
\* Semaphore.acquire(): take a permit, or queue behind the waiters
TaskEnter(t) ==
    /\ taskPc[t] = "idle"
    /\ IF ~Locked
       THEN /\ semValue' = semValue - 1
            /\ taskPc' = [taskPc EXCEPT ![t] = "acquired"]
            /\ UNCHANGED waiters
       ELSE /\ waiters' = Append(waiters, t)
            /\ taskPc' = [taskPc EXCEPT ![t] = "waiting"]
            /\ UNCHANGED semValue
    /\ UNCHANGED <<ctorVars, pipeVars, holds, acquires, now, envVars, pc, localVars,
                   procVars, killVars, retVars, probe, argVars, pullVars,
                   startup>>

\* the end of the "async with" block: Semaphore.release()
TaskExit(t) ==
    /\ taskPc[t] = "acquired"
    /\ LET r == release(semValue, waiters) IN
       /\ semValue' = r.value
       /\ waiters' = r.waiters
       /\ taskPc' = [x \in Tasks |-> IF x = t THEN "idle"
                                     ELSE IF x = r.woken THEN "acquired"
                                     ELSE taskPc[x]]
    /\ UNCHANGED <<ctorVars, pipeVars, holds, acquires, now, envVars, pc, localVars,
                   procVars, killVars, retVars, probe, argVars, pullVars,
                   startup>>

NextTasks ==
    \/ \E t \in Tasks : TaskEnter(t)
    \/ \E t \in Tasks : TaskExit(t)

\* every task that holds a permit eventually leaves the section; callers
\* arrive whenever they like
SpecTasks ==
    /\ Init
    /\ [][NextTasks]_vars
    /\ \A t \in Tasks : WF_vars(TaskExit(t))

(***************************************************************************)
(* execute() under fair scheduling.  The clock of Spec stops at MaxTime;   *)
(* here it also goes on for as long as a running call waits for its        *)
(* deadline, so that every deadline is reached.                            *)
(***************************************************************************)
TickFair ==
    /\ \/ now < MaxTime /\ \E c \in Calls : pc[c] \notin {"idle", "done"}
       \/ \E c \in Calls : pc[c] = "running"
    /\ \A c \in Calls : pc[c] = "running" =>
           /\ now < Deadline(c)
           /\ procExit[c] = NoCode
    /\ now' = now + 1
    /\ UNCHANGED <<appVars, ctorVars, pipeVars, semVars, envVars, pc, localVars,
                   procVars, killVars, retVars, probe>>

\* create_subprocess_exec("docker", "run", ...) returns or raises
Launch(c) == LaunchOk(c) \/ (\E msg \in LaunchErrors : LaunchFail(c, msg))

\* the timer of wait_for fires and _kill_container is entered
TimeoutFires(c) == TimeoutKill(c) \/ TimeoutKillRaises(c)

NextFair ==
    \/ \E c \in Calls, arg \in TimeoutArgs : Enter(c, arg)
    \/ \E c \in Calls : Launch(c)
    \/ \E c \in Calls : ContainerStart(c)
    \/ \E c \in Calls, code \in ExitCodes : ContainerRefused(c, code)
    \/ \E c \in Calls, code \in ExitCodes : ProcExit(c, code)
    \/ \E c \in Calls : Complete(c)
    \/ \E c \in Calls, msg \in ReadErrors : ReadFail(c, msg)
    \/ \E c \in Calls : TimeoutFires(c)
    \/ \E c \in Calls : KillFinish(c)
    \/ TickFair
    \/ \E rt \in Runtime : RuntimeChange(rt)

\* What the event loop and the operating system guarantee: a ready task is
\* resumed, a timer that is due fires, starting a process returns or raises,
\* and time goes on.  Nothing makes a container start, a command exit or a
\* docker kill process finish.
Fairness ==
    /\ WF_vars(TickFair)
    /\ \A c \in Calls : WF_vars(Launch(c))
    /\ \A c \in Calls : WF_vars(Complete(c))
    /\ \A c \in Calls : WF_vars(TimeoutFires(c))

SpecFair == Init /\ [][NextFair]_vars /\ Fairness

\* the same, with a docker kill process that always finishes
SpecFairKillEnds == SpecFair /\ \A c \in Calls : WF_vars(KillFinish(c))

(***************************************************************************)
(* The start of the bot: post_init() in bot.py probes the runtime and      *)
(* starts pull_images() as a background task, while the handlers may       *)
(* already call execute().                                                 *)
(***************************************************************************)
StartupCalls == 1    \* execute() calls made while the images are pulled

\* the state execute() works on
execVars == <<ctorVars, pipeVars, semVars, now, envVars, pc, localVars, procVars,
              killVars, retVars>>

\* post_init(), bot.py lines 780-784
PostInit ==
    /\ startup = "none"
    /\ IF check_docker_available(docker)
       THEN /\ startup' = "available"
            /\ probe' = "true"
            /\ pullPc' = "starting"
       ELSE /\ startup' = "unavailable"
            /\ probe' = "false"
            /\ UNCHANGED pullPc
    /\ UNCHANGED <<execVars, argVars, taskVars, images_pulled, pullAt, pullRc,
                   pullLog, pullRaised>>

\* a faulty variant: pull_images has no "except Exception"
PullContained_not == FALSE

\* pull_images: "except Exception as e: logger.error(...)", lines 59-60
PullContained == TRUE

\* the loop of pull_images goes on to the next image with one more record
\* in the log
PullNext(image, rc, level) ==
    /\ pullRc' = [pullRc EXCEPT ![image] = rc]
    /\ pullLog' = pullLog \cup {<<level, image>>}
    /\ pullAt' = pullAt + 1
    /\ pullPc' = IF pullAt = Len(ImageOrder) THEN "done" ELSE "starting"
    /\ UNCHANGED pullRaised

\* an exception inside the try block of pull_images
PullException(image) ==
    IF PullContained
    THEN PullNext(image, "raised", "error")
    ELSE /\ pullRc' = [pullRc EXCEPT ![image] = "raised"]
         /\ pullRaised' = TRUE
         /\ pullPc' = "failed"
         /\ UNCHANGED <<pullAt, pullLog>>

\* create_subprocess_exec("docker", "pull", image.value), lines 48-52
PullStart ==
    /\ pullPc = "starting"
    /\ IF dockerCli
       THEN /\ pullPc' = "waiting"
            /\ UNCHANGED <<pullAt, pullRc, pullLog, pullRaised>>
       ELSE PullException(ImageOrder[pullAt])
    /\ UNCHANGED <<execVars, probe, argVars, taskVars, images_pulled, startup>>

\* communicate() returns, lines 53-58: the image is recorded if and only if
\* docker pull exited with code 0, which takes a daemon that answers
PullFinish(rc) ==
    /\ pullPc = "waiting"
    /\ rc = "zero" => daemonUp
    /\ images_pulled' = IF rc = "zero"
                        THEN images_pulled \cup {ImageOrder[pullAt]}
                        ELSE images_pulled
    /\ PullNext(ImageOrder[pullAt], rc, IF rc = "zero" THEN "info" ELSE "warning")
    /\ UNCHANGED <<execVars, probe, argVars, taskVars, startup>>

\* communicate() raises (a pipe read error)
PullReadFail ==
    /\ pullPc = "waiting"
    /\ PullException(ImageOrder[pullAt])
    /\ UNCHANGED <<execVars, probe, argVars, taskVars, images_pulled, startup>>

NextStartup ==
    \/ PostInit
    \/ PullStart
    \/ \E rc \in {"zero", "nonzero"} : PullFinish(rc)
    \/ PullReadFail
    \/ \E c \in 1..StartupCalls, arg \in TimeoutArgs : Enter(c, arg)
    \/ \E c \in Calls : LaunchOk(c)
    \/ \E c \in Calls, msg \in LaunchErrors : LaunchFail(c, msg)
    \/ \E c \in Calls : ContainerStart(c)
    \/ \E c \in Calls, code \in ExitCodes : ContainerRefused(c, code)
    \/ \E c \in Calls, code \in ExitCodes : ProcExit(c, code)
    \/ \E c \in Calls : Complete(c)
    \/ \E c \in Calls, msg \in ReadErrors : ReadFail(c, msg)
    \/ \E c \in Calls : TimeoutKill(c)
    \/ \E c \in Calls : TimeoutKillRaises(c)
    \/ \E c \in Calls : KillFinish(c)
    \/ CheckDockerAvailable
    \/ Tick
    \/ \E rt \in Runtime : RuntimeChange(rt)

SpecStartup == Init /\ [][NextStartup]_vars

(***************************************************************************)
(* execute() with the container names as the code draws them: the token   *)
(* is a random value, which may repeat.                                    *)
(***************************************************************************)
TokenValues == 1..NumTokens

\* execute() where secrets.token_hex(8) gives any value
EnterDrawn(c, arg, token) ==
    /\ EnterWith(c, arg, token)
    /\ UNCHANGED nextToken

NextNames ==
    \/ \E c \in Calls, arg \in TimeoutArgs, token \in TokenValues :
           EnterDrawn(c, arg, token)
    \/ \E c \in Calls : LaunchOk(c)
    \/ \E c \in Calls, msg \in LaunchErrors : LaunchFail(c, msg)
    \/ \E c \in Calls : ContainerStart(c)
    \/ \E c \in Calls, code \in ExitCodes : ContainerConflict(c, code)
    \/ \E c \in Calls, code \in ExitCodes : ContainerRefused(c, code)
    \/ \E c \in Calls, code \in ExitCodes : ProcExit(c, code)
    \/ \E c \in Calls : Complete(c)
    \/ \E c \in Calls, msg \in ReadErrors : ReadFail(c, msg)
    \/ \E c \in Calls : TimeoutKill(c)
    \/ \E c \in Calls : TimeoutKillRaises(c)
    \/ \E c \in Calls : KillFinish(c)
    \/ Tick
    \/ \E rt \in Runtime : RuntimeChange(rt)

SpecNames == Init /\ [][NextNames]_vars

(***************************************************************************)
(* execute() together with what the command writes to stdout and stderr.  *)
(***************************************************************************)
\* the command in the container writes to a pipe; communicate() collects it
\* while it is awaited
Emit(c, stream, chunk) ==
    /\ pc[c] = "running"
    /\ cont[c] = "live"
    /\ Len(piped[c][stream]) < MaxPiped
    /\ piped' = [piped EXCEPT ![c][stream] = Append(@, chunk)]
    /\ UNCHANGED <<appVars, ctorVars, semVars, now, envVars, pc, localVars, procVars,
                   killVars, retVars, probe>>

NextOutput ==
    \/ \E c \in 1..OutputCalls, arg \in TimeoutArgs : Enter(c, arg)
    \/ \E c \in Calls : LaunchOk(c)
    \/ \E c \in Calls, msg \in LaunchErrors : LaunchFail(c, msg)
    \/ \E c \in Calls : ContainerStart(c)
    \/ \E c \in Calls, stream \in Streams, chunk \in Chunks : Emit(c, stream, chunk)
    \/ \E c \in Calls, code \in ExitCodes : ContainerRefused(c, code)
    \/ \E c \in Calls, code \in ExitCodes : ProcExit(c, code)
    \/ \E c \in Calls : Complete(c)
    \/ \E c \in Calls, msg \in ReadErrors : ReadFail(c, msg)
    \/ \E c \in Calls : TimeoutKill(c)
    \/ \E c \in Calls : TimeoutKillRaises(c)
    \/ \E c \in Calls : KillFinish(c)
    \/ Tick
    \/ \E rt \in Runtime : RuntimeChange(rt)

SpecOutput == Init /\ [][NextOutput]_vars

(***************************************************************************)
(* The handlers of /exec, /pt and /do around execute(): bot.py lines       *)
(* 217-375.  Update c is served by call c of execute().                    *)
(***************************************************************************)
\* a faulty variant: the handlers serve everybody
is_admin_anybody(telegram_id) == TRUE

\* Database.is_admin: SELECT COUNT(*) FROM admin_users WHERE telegram_id = $1
is_admin(telegram_id) == Cardinality(admin_users \cap {telegram_id}) > 0

\* api_gateway.chat_completion in do_command returns a command or raises
LlmOutcomes == {"command", "raises"}

\* exec_command, pt_command, do_command up to the call of
\* _execute_in_sandbox
Handle(c, h, user, nargs, llm) ==
    /\ bot[c].hpc = "idle"
    /\ \A x \in Calls : x < c => bot[x].hpc # "idle"
    /\ bot' = [bot EXCEPT ![c] =
          [@ EXCEPT !.user = user, !.nargs = nargs,
             !.hpc = IF is_admin(user) /\ nargs > 0
                        /\ ~(h = "do_command" /\ llm = "raises")
                     THEN "ready" ELSE "done",
             !.reply = IF ~is_admin(user) THEN "Admin only command."
                       ELSE IF nargs = 0 THEN "Usage"
                       ELSE IF h = "do_command" /\ llm = "raises" THEN "Error"
                       ELSE "none"]]
    /\ UNCHANGED <<execVars, probe, request, docker_argv, applied_timeout, via,
                   issued, admin_users, sideVars, taskVars, pullVars, startup>>

\* result = await sandbox.execute(...), line 318: the only call of execute().
\* The handlers pass BotTimeout(image); the clock of the model is scaled so
\* that the deadline lies within MaxTime.
BotExecute(c) ==
    /\ bot[c].hpc = "ready"
    /\ Enter(c, BotDeadline)

\* len(output) > MAX_TELEGRAM_MESSAGE_LENGTH - 200
TooLong(len) == len > MAX_TELEGRAM_MESSAGE_LENGTH - 200

\* the lengths the output of a command can have
OutputLengths == {MAX_TELEGRAM_MESSAGE_LENGTH - 200,
                  MAX_TELEGRAM_MESSAGE_LENGTH - 199}

\* paste_server.create_paste returns a URL, or redis.setex raises
PasteOutcomes == {"url", "raises"}

\* a faulty variant: a paste is created for long outputs only
PasteCreated_long(len) == TooLong(len)

\* create_paste is awaited before the length of the output is looked at
PasteCreated(len) == TRUE

\* _execute_in_sandbox after execute() has returned: lines 325-375
Report(c, len, paste) ==
    /\ bot[c].hpc = "ready"
    /\ pc[c] = "done"
    /\ result[c] # NoResult
    /\ bot' = [bot EXCEPT ![c] =
          [@ EXCEPT !.hpc = "done", !.outlen = len,
             !.pastes = IF PasteCreated(len) THEN @ + 1 ELSE @,
             !.reply = IF PasteCreated(len) /\ paste = "raises"
                       THEN "Execution failed"
                       ELSE IF TooLong(len) THEN "Output too long. View here"
                       ELSE "Full output"]]
    /\ UNCHANGED <<execVars, probe, request, docker_argv, applied_timeout, via,
                   issued, admin_users, sideVars, taskVars, pullVars, startup>>

NextBot ==
    \/ \E c \in Calls, h \in Handlers, user \in Users, nargs \in 0..1,
          llm \in LlmOutcomes : Handle(c, h, user, nargs, llm)
    \/ \E c \in Calls : BotExecute(c)
    \/ \E c \in Calls, len \in OutputLengths, paste \in PasteOutcomes :
           Report(c, len, paste)
    \/ \E c \in Calls : LaunchOk(c)
    \/ \E c \in Calls, msg \in LaunchErrors : LaunchFail(c, msg)
    \/ \E c \in Calls : ContainerStart(c)
    \/ \E c \in Calls, code \in ExitCodes : ContainerRefused(c, code)
    \/ \E c \in Calls, code \in ExitCodes : ProcExit(c, code)
    \/ \E c \in Calls : Complete(c)
    \/ \E c \in Calls, msg \in ReadErrors : ReadFail(c, msg)
    \/ \E c \in Calls : TimeoutKill(c)
    \/ \E c \in Calls : TimeoutKillRaises(c)
    \/ \E c \in Calls : KillFinish(c)
    \/ Tick
    \/ \E rt \in Runtime : RuntimeChange(rt)

SpecBot == Init /\ [][NextBot]_vars

(***************************************************************************)
(* handle_message and the rate limiter: bot.py lines 463-585,             *)
(* rate_limiter.py lines 35-61.                                            *)
(***************************************************************************)
\* a faulty variant: the application handles updates concurrently
CanDispatch_concurrent == TRUE

\* Application.builder()...build() without concurrent_updates: the
\* application awaits the handler of one update before it takes the next
CanDispatch == \A s \in Slots : handlers[s].hpc = "idle"

\* is_premium or is_admin; no user of the model is premium
Unlimited(user) == is_admin(user)

\* RateLimiter.can_query: lines 51-61
can_query(user, is_premium) ==
    IF is_premium THEN TRUE
    ELSE ~(FREE_QUERY_LIMIT - daily[user][today] <= 0)

\* a faulty variant: the counter is not written
increment_query_count_lost(counts, day) == counts

\* RateLimiter.increment_query_count: redis.incr on the key of the current
\* date
increment_query_count(counts, day) == [counts EXCEPT ![day] = @ + 1]

\* handle_message up to the reply "Thinking...": lines 463-538
Check(s, user) ==
    /\ handlers[s].hpc = "idle"
    /\ CanDispatch
    /\ handled < MaxMsgs
    /\ handled' = handled + 1
    /\ IF can_query(user, Unlimited(user))
       THEN /\ handlers' = [handlers EXCEPT ![s] =
                  [hpc |-> "thinking", user |-> user, day |-> today,
                   reply |-> "Thinking..."]]
            /\ admitted' = [admitted EXCEPT ![user][today] = @ + 1]
       ELSE /\ handlers' = [handlers EXCEPT ![s] =
                  [hpc |-> "idle", user |-> user, day |-> today,
                   reply |-> "daily limit"]]
            /\ UNCHANGED admitted
    /\ UNCHANGED <<execVars, probe, request, docker_argv, applied_timeout, via,
                   issued, botVars, pasteVars, today, daily, returned, taskVars, pullVars,
                   startup>>

\* api_gateway.chat_completion returns: lines 547-552
CompletionReturns(s) ==
    /\ handlers[s].hpc = "thinking"
    /\ handlers' = [handlers EXCEPT ![s].hpc = "completed"]
    /\ returned' = [returned EXCEPT ![handlers[s].user] = @ + 1]
    /\ UNCHANGED <<execVars, probe, request, docker_argv, applied_timeout, via,
                   issued, botVars, pasteVars, today, daily, admitted, handled, taskVars,
                   pullVars, startup>>

\* api_gateway.chat_completion raises: lines 581-585
CompletionRaises(s) ==
    /\ handlers[s].hpc = "thinking"
    /\ handlers' = [handlers EXCEPT ![s].hpc = "idle", ![s].reply = "Sorry"]
    /\ admitted' = [admitted EXCEPT ![handlers[s].user][handlers[s].day] = @ - 1]
    /\ UNCHANGED <<execVars, probe, request, docker_argv, applied_timeout, via,
                   issued, botVars, pasteVars, today, daily, returned, handled, taskVars,
                   pullVars, startup>>

\* await rate_limiter.increment_query_count(user.id): line 554
Increment(s) ==
    /\ handlers[s].hpc = "completed"
    /\ handlers' = [handlers EXCEPT ![s].hpc = "counted"]
    /\ daily' = [daily EXCEPT ![handlers[s].user] =
                    increment_query_count(@, today)]
    /\ UNCHANGED <<execVars, probe, request, docker_argv, applied_timeout, via,
                   issued, botVars, pasteVars, today, admitted, returned, handled, taskVars,
                   pullVars, startup>>

\* db.log_usage, thinking_msg.delete and reply_text: lines 556-585; each can
\* raise, and then the user gets the apology instead of the answer
Deliver(s, ok) ==
    /\ handlers[s].hpc = "counted"
    /\ handlers' = [handlers EXCEPT ![s].hpc = "idle",
                      ![s].reply = IF ok THEN "answer" ELSE "Sorry"]
    /\ UNCHANGED <<execVars, probe, request, docker_argv, applied_timeout, via,
                   issued, botVars, pasteVars, today, daily, admitted, returned, handled,
                   taskVars, pullVars, startup>>

\* midnight UTC: datetime.utcnow().strftime("%Y-%m-%d") changes
NextDay ==
    /\ today < MaxDays
    /\ today' = today + 1
    /\ UNCHANGED <<execVars, probe, request, docker_argv, applied_timeout, via,
                   issued, botVars, pasteVars, daily, handlers, admitted, returned, handled,
                   taskVars, pullVars, startup>>

NextQuota ==
    \/ \E s \in Slots, user \in Users : Check(s, user)
    \/ \E s \in Slots : CompletionReturns(s)
    \/ \E s \in Slots : CompletionRaises(s)
    \/ \E s \in Slots : Increment(s)
    \/ \E s \in Slots, ok \in BOOLEAN : Deliver(s, ok)
    \/ NextDay

SpecQuota == Init /\ [][NextQuota]_vars

(***************************************************************************)
(* execute() in a task that can be cancelled from outside (task.cancel(),  *)
(* as the shutdown of the application does).                               *)
(***************************************************************************)
\* a faulty variant: a cancelled waiter stays in the queue of the semaphore
CancelWaiter_stays(w, c) == w

\* Semaphore.acquire(), "finally: self._waiters.remove(fut)"
CancelWaiter(w, c) == SelectSeq(w, LAMBDA x : x # c)

\* CancelledError is raised in acquire(), line 98: the future is taken out
\* of the queue and the exception leaves execute()
CancelWaiting(c) ==
    /\ pc[c] = "waiting"
    /\ waiters' = CancelWaiter(waiters, c)
    /\ pc' = [pc EXCEPT ![c] = "done"]
    /\ path' = [path EXCEPT ![c] = "cancelled"]
    /\ raised' = [raised EXCEPT ![c] = TRUE]
    /\ start_time' = [start_time EXCEPT ![c] = NoTime]
    /\ UNCHANGED <<appVars, ctorVars, pipeVars, semValue, holds, acquires, now, envVars,
                   timeout, name, nextToken, procStart, procVars, killVars,
                   result, text, nresults, releases, probe>>

\* CancelledError is raised at an await inside the "async with" block (lines
\* 100-122): it is a BaseException, so neither "except asyncio.TimeoutError"
\* nor "except Exception" handles it; __aexit__ releases the permit
CancelHolding(c) ==
    /\ pc[c] \in {"acquired", "running", "killwait"}
    /\ Leave(c, "cancelled", NoResult)
    /\ UNCHANGED <<appVars, ctorVars, pipeVars, now, envVars, timeout, name, nextToken,
                   procVars, killVars, probe>>

NextCancel ==
    \/ \E c \in Calls, arg \in TimeoutArgs : Enter(c, arg)
    \/ \E c \in Calls : CancelWaiting(c)
    \/ \E c \in Calls : CancelHolding(c)
    \/ \E c \in Calls : LaunchOk(c)
    \/ \E c \in Calls, msg \in LaunchErrors : LaunchFail(c, msg)
    \/ \E c \in Calls : ContainerStart(c)
    \/ \E c \in Calls, code \in ExitCodes : ContainerRefused(c, code)
    \/ \E c \in Calls, code \in ExitCodes : ProcExit(c, code)
    \/ \E c \in Calls : Complete(c)
    \/ \E c \in Calls, msg \in ReadErrors : ReadFail(c, msg)
    \/ \E c \in Calls : TimeoutKill(c)
    \/ \E c \in Calls : TimeoutKillRaises(c)
    \/ \E c \in Calls : KillFinish(c)
    \/ Tick
    \/ \E rt \in Runtime : RuntimeChange(rt)

SpecCancel == Init /\ [][NextCancel]_vars

(***************************************************************************)
(* The paste server: paste_server.py lines 247-329.                        *)
(***************************************************************************)
\* what the bot stores: output, command, exit code, elapsed time
Outputs ==
    {[content |-> "uid=1000", command |-> "id", exit_code |-> 0,
      execution_time_ms |-> 5],
     [content |-> "not found", command |-> "nmap", exit_code |-> 127,
      execution_time_ms |-> 7]}

\* json.dumps of the dictionary of lines 263-269
dumps(d) ==
    <<"content", d.content, "command", d.command, "exit_code", d.exit_code,
      "execution_time_ms", d.execution_time_ms, "created_at", d.created_at>>

\* json.loads
loads(data) ==
    [content |-> data[2], command |-> data[4], exit_code |-> data[6],
     execution_time_ms |-> data[8], created_at |-> data[10]]

\* f"{self._base_url}/p/{paste_id}" and the route "/p/{paste_id}"
PasteUrl(paste_id) == <<"base_url", "p", paste_id>>
IdInUrl(url) == url[3]

\* redis.setex(key, ttl, data)
setex(store, key, ttl, data) ==
    [store EXCEPT ![key] =
        [present |-> TRUE, value |-> data, expires |-> ptime + ttl]]

\* a faulty variant: keys never expire
redis_get_forever(key) ==
    IF redis_pastes[key].present
    THEN [found |-> TRUE, value |-> redis_pastes[key].value]
    ELSE [found |-> FALSE, value |-> <<>>]

\* redis.get(key): the value, or None once the time to live has elapsed
redis_get(key) ==
    IF redis_pastes[key].present /\ ptime < redis_pastes[key].expires
    THEN [found |-> TRUE, value |-> redis_pastes[key].value]
    ELSE [found |-> FALSE, value |-> <<>>]

\* PasteServer.get_paste: lines 274-282
NonePaste == [some |-> FALSE]
get_paste(paste_id) ==
    LET data == redis_get(PasteKey(paste_id)) IN
    IF ~data.found THEN NonePaste
    ELSE [some |-> TRUE, paste |-> loads(data.value)]

NotFound == [status |-> 404, text |-> "Paste not found or expired"]

\* PasteServer.handle_paste_html: lines 284-313.  The CSS of
\* TERMINAL_HTML_TEMPLATE has single braces, so str.format raises KeyError
\* for every paste that exists and aiohttp answers 500.
handle_paste_html(paste_id) ==
    LET paste == get_paste(paste_id) IN
    IF ~paste.some THEN NotFound
    ELSE [status |-> 500, text |-> "Internal Server Error"]

\* PasteServer.handle_paste_raw: lines 315-329
handle_paste_raw(paste_id) ==
    LET paste == get_paste(paste_id) IN
    IF ~paste.some THEN NotFound
    ELSE [status |-> 200, text |-> paste.paste.content]

\* PasteServer.create_paste: lines 250-272
CreatePaste(paste_id, out) ==
    /\ Len(created) < MaxPastes
    /\ LET d == [content |-> out.content, command |-> out.command,
                 exit_code |-> out.exit_code,
                 execution_time_ms |-> out.execution_time_ms,
                 created_at |-> ptime] IN
       /\ redis_pastes' = setex(redis_pastes, PasteKey(paste_id), PASTE_TTL,
                                dumps(d))
       /\ created' = Append(created, [url |-> PasteUrl(paste_id), args |-> out,
                                      at |-> ptime])
    /\ UNCHANGED <<execVars, probe, request, docker_argv, applied_timeout, via,
                   issued, botVars, quotaVars, ptime, response, taskVars,
                   pullVars, startup>>

Routes == {"html", "raw"}

\* GET /p/{paste_id} and GET /p/{paste_id}/raw
Get(route, paste_id) ==
    /\ response' = [route |-> route] @@
                   (IF route = "html" THEN handle_paste_html(paste_id)
                    ELSE handle_paste_raw(paste_id))
    /\ UNCHANGED <<execVars, probe, request, docker_argv, applied_timeout, via,
                   issued, botVars, quotaVars, ptime, redis_pastes, created,
                   taskVars, pullVars, startup>>

\* time passes
PasteTick ==
    /\ ptime < MaxPasteTicks * TickSeconds
    /\ ptime' = ptime + TickSeconds
    /\ UNCHANGED <<execVars, probe, request, docker_argv, applied_timeout, via,
                   issued, botVars, quotaVars, redis_pastes, created, response,
                   taskVars, pullVars, startup>>

NextPaste ==
    \/ \E paste_id \in PasteIds, out \in Outputs : CreatePaste(paste_id, out)
    \/ \E route \in Routes, paste_id \in AllIds : Get(route, paste_id)
    \/ PasteTick

SpecPaste == Init /\ [][NextPaste]_vars

(***************************************************************************)
(* Properties                                                              *)
(***************************************************************************)
InSection(c) == pc[c] \in {"acquired", "running", "killwait"}
Holders == {c \in Calls : InSection(c)}
Returned(c) == pc[c] = "done" /\ result[c].kind = "result"
Alive(c) == cont[c] \in {"starting", "live"}

\* C1: in every reachable state the number of execute() calls inside the
\* semaphore-guarded section is at most max_concurrent.
C1_PermitBound ==
    /\ Cardinality(Holders) <= max_concurrent
    /\ \A c \in Calls : InSection(c) <=> holds[c]

\* the pool is exhausted and a further call is queued behind the holders
C1_Witness ==
    /\ Cardinality(Holders) = max_concurrent
    /\ waiters # <<>>

\* C2: a docker run process is started only by a call that holds a permit,
\* and a call queued for a permit has no process.
C2_LaunchNeedsPermit ==
    [][\A c \in Calls :
          /\ pc'[c] = "waiting" => cont'[c] = "none"
          /\ (cont[c] = "none" /\ cont'[c] # "none") =>
                 (holds[c] /\ holds'[c] /\ acquires[c] = 1)]_vars

\* max_concurrent holders have each started their process while one more
\* call waits, its process not started
C2_Witness ==
    /\ Cardinality({c \in Calls : holds[c] /\ cont[c] # "none"}) = max_concurrent
    /\ \E w \in Calls : pc[w] = "waiting" /\ cont[w] = "none"

\* C3: every call releases the permit it acquired exactly once, on each exit
\* path; when no call is in progress all max_concurrent permits are free.
C3_PermitPairing ==
    /\ \A c \in Calls :
          /\ releases[c] <= acquires[c] /\ acquires[c] <= 1
          /\ holds[c] <=> (acquires[c] = 1 /\ releases[c] = 0)
          /\ pc[c] = "done" => (acquires[c] = 1 /\ releases[c] = 1)
    /\ semValue + Cardinality({c \in Calls : holds[c]}) = max_concurrent
    /\ (\A c \in Calls : pc[c] \in {"idle", "done"}) => semValue = max_concurrent

\* all calls have returned, one after a timeout and one after a failed launch
C3_Witness ==
    /\ \A c \in Calls : pc[c] = "done" /\ releases[c] = 1
    /\ \E c \in Calls : path[c] = "timeout"
    /\ \E c \in Calls : path[c] = "launch_failed"
    /\ semValue = max_concurrent

\* C4: a call returns exactly one SandboxResult and never raises, on the
\* completion, timeout, launch-failure and read-failure paths alike.
C4_OneResultNoRaise ==
    \A c \in Calls :
        /\ ~raised[c]
        /\ nresults[c] = (IF pc[c] = "done" THEN 1 ELSE 0)
        /\ pc[c] = "done" <=> result[c] # NoResult

\* one call returned after its output could not be read, the other after
\* its process could not be started
C4_Witness ==
    /\ \E c \in Calls : Returned(c) /\ path[c] = "read_failed"
    /\ \E c \in Calls : Returned(c) /\ path[c] = "launch_failed"

\* C5 as stated: a call whose command outlives the timeout returns
\* timed_out=true and exit_code=-1 no later than timeout plus the grace
\* period after execute() was entered.
C5_ReturnsWithinGrace ==
    \A c \in Calls :
        (Returned(c) /\ path[c] = "timeout") =>
            /\ result[c].timed_out /\ result[c].exit_code = -1
            /\ result[c].execution_time_ms <= (timeout[c] + Grace) * MsPerSecond

\* C5 as amended: the wait for the process ends exactly timeout seconds
\* after the process was started (never earlier, never later), and a call
\* whose wait ended by the deadline returns timed_out=true, exit_code=-1 with
\* an elapsed time of at least the timeout; the time waited for a permit and
\* for the docker kill come on top, without a bound.
C5_DeadlineAfterProcessStart ==
    \A c \in Calls :
        /\ pc[c] = "running" => now <= procStart[c] + timeout[c]
        /\ pc[c] = "killwait" => now >= procStart[c] + timeout[c]
        /\ (Returned(c) /\ path[c] = "timeout") =>
               /\ result[c].timed_out /\ result[c].exit_code = -1
               /\ result[c].execution_time_ms >= timeout[c] * MsPerSecond

\* a timed-out call that had to wait for its permit returned later than
\* its timeout after entry
C5_Witness ==
    \E c \in Calls :
        /\ Returned(c) /\ result[c].timed_out
        /\ result[c].execution_time_ms > timeout[c] * MsPerSecond
        /\ max_concurrent < NumCalls

\* C6 as stated (its first sentence): once execute() has returned
\* timed_out=true, no container of that invocation is running or about to
\* run.
C6_NoContainerAfterTimeout ==
    \A c \in Calls : (Returned(c) /\ result[c].timed_out) => ~Alive(c)

\* C6 as amended: after a timed-out result whose docker kill exited with
\* code 0, after a natural-completion result and after a launch failure the
\* call's container is not running and never will be; after a failed docker
\* kill or a failed read of the output it may still be.
C6_CleanupWhenKillSucceeds ==
    \A c \in Calls :
        /\ (Returned(c) /\ killRc[c] = "zero") => cont[c] = "gone"
        /\ (Returned(c) /\ path[c] = "completed") => cont[c] = "gone"
        /\ (Returned(c) /\ path[c] = "launch_failed") => cont[c] = "none"
        /\ killRc[c] = "zero" => (result[c].kind = "result" /\ result[c].timed_out)

\* a call timed out, its docker kill exited 0 and its container is gone
C6_Witness ==
    \E c \in Calls :
        Returned(c) /\ result[c].timed_out /\ killRc[c] = "zero" /\ cont[c] = "gone"

\* C7 as stated: a live container is always covered by a permit held by its
\* call, so at most max_concurrent containers are alive.
C7_LiveContainerHoldsPermit ==
    /\ \A c \in Calls : cont[c] = "live" => holds[c]
    /\ Cardinality({c \in Calls : cont[c] = "live"}) <= max_concurrent

\* C7 as amended: the container of a call that has not returned yet is
\* covered by a permit that call holds, so at most max_concurrent containers
\* of unreturned calls exist; the permit is released when execute() returns.
C7_UnreturnedContainerHoldsPermit ==
    /\ \A c \in Calls : (Alive(c) /\ pc[c] # "done") => (holds[c] /\ InSection(c))
    /\ Cardinality({c \in Calls : Alive(c) /\ pc[c] # "done"}) <= max_concurrent

\* every permit covers a live container while one more call waits
C7_Witness ==
    /\ Cardinality({c \in Calls : cont[c] = "live" /\ holds[c]}) = max_concurrent
    /\ waiters # <<>>

\* C8: when the docker run process cannot be started the call returns a
\* result with a non-empty error, exit_code=-1, timed_out=false, without a
\* docker kill and without raising; check_docker_available() answers false
\* in that situation.
C8_LaunchFailure ==
    /\ \A c \in Calls :
          path[c] = "launch_failed" =>
              /\ Returned(c) /\ ~raised[c]
              /\ result[c].error \notin {None, ""}
              /\ result[c].exit_code = -1
              /\ ~result[c].timed_out
              /\ ~killAttempted[c] /\ killRc[c] = "none"
              /\ cont[c] = "none"
    /\ (docker = "no_cli" /\ probe # "none") => probe = "false"

\* a launch failed and the probe, made while docker cannot be started,
\* answered false
C8_Witness ==
    /\ \E c \in Calls : Returned(c) /\ path[c] = "launch_failed"
    /\ docker = "no_cli" /\ probe = "false"

\* C9: a process that exits by itself before the deadline, its output read,
\* yields timed_out=false, no error and its own exit code, zero or not.
C9_NaturalExitVerbatim ==
    \A c \in Calls :
        /\ (Returned(c) /\ exitedInTime[c] /\ path[c] # "read_failed") =>
               path[c] = "completed"
        /\ (Returned(c) /\ path[c] = "completed") =>
               /\ procExit[c] \in ExitCodes
               /\ result[c].exit_code = procExit[c]
               /\ ~result[c].timed_out
               /\ result[c].error = None

\* a process exited with a non-zero code before the deadline
C9_Witness ==
    \E c \in Calls :
        Returned(c) /\ exitedInTime[c] /\ procExit[c] # 0 /\ path[c] = "completed"

\* C10: for a call whose wait on its process ended by completion or by the
\* deadline, exactly one of the two took effect, also when the process exited
\* at the moment of the deadline: timed_out=true exactly when the call issued
\* a docker kill (called _kill_container), and no docker kill is issued by a
\* call that reports natural completion.
C10_ExactlyOneOutcome ==
    \A c \in Calls :
        /\ killAttempted[c] => pc[c] \in {"killwait", "done"}
        /\ Returned(c) =>
              /\ result[c].timed_out <=> killAttempted[c]
              /\ path[c] = "completed" => ~killAttempted[c]
              /\ (cont[c] # "none" /\ path[c] # "read_failed") =>
                     /\ path[c] \in {"completed", "timeout"}
                     /\ result[c].timed_out <=> path[c] = "timeout"
                     /\ result[c].error = None
              /\ result[c].timed_out => killTarget[c] = name[c]

\* the process exited at the very moment of the deadline: one call got the
\* timeout, the other the completion
C10_Witness ==
    /\ \E c \in Calls :
          /\ Returned(c) /\ procExit[c] # NoCode /\ ~exitedInTime[c]
          /\ result[c].timed_out /\ killAttempted[c]
    /\ \E c \in Calls :
          /\ Returned(c) /\ procExit[c] # NoCode /\ ~exitedInTime[c]
          /\ path[c] = "completed" /\ ~killAttempted[c]

\* ---- the command line of a launch ----
\* the options of docker run: what precedes the image, "/bin/sh", "-c" and
\* the command text
Options(argv) == SubSeq(argv, 1, Len(argv) - 4)
HasOption(argv, flag) ==
    \E i \in 1..Len(Options(argv)) : Options(argv)[i] = flag
HasPair(argv, flag, value) ==
    \E i \in 1..(Len(Options(argv)) - 1) :
        Options(argv)[i] = flag /\ Options(argv)[i + 1] = value
NetworkDisabled(argv) == HasPair(argv, "--network", "none")
Prepared == via # "none"

\* C11 as stated: a launch under ALPINE carries "--network none" whatever
\* the enable_network flag is, and only BLACKARCH launches have network.
C11_MinimalNeverNetworked ==
    Prepared =>
        /\ request.image = ALPINE => NetworkDisabled(docker_argv)
        /\ ~NetworkDisabled(docker_argv) => request.image = BLACKARCH

\* C11: a launch carries "--network none" exactly when enable_network is
\* false, whatever the image; the bot's handlers pass enable_network=False
\* with ALPINE and enable_network=True with BLACKARCH, so on their paths the
\* ALPINE launches, and only they, have no network.
C11_NetworkFollowsFlag ==
    Prepared =>
        /\ NetworkDisabled(docker_argv) <=> ~request.enable_network
        /\ via \in Handlers =>
               (request.image = ALPINE <=> NetworkDisabled(docker_argv))

\* execute(image=ALPINE, enable_network=True) launches with network
C11_Witness ==
    /\ via = "caller"
    /\ request.image = ALPINE
    /\ request.enable_network
    /\ ~NetworkDisabled(docker_argv)

C13_KillFailureStillTimeout ==
    \A c \in Calls :
        killRc[c] \in {"raised", "nonzero"} =>
            /\ Returned(c)
            /\ ~raised[c]
            /\ nresults[c] = 1
            /\ path[c] = "timeout"
            /\ result[c].timed_out
            /\ result[c].exit_code = -1
            /\ result[c].error = None

\* one call whose docker kill could not be started and one whose docker
\* kill exited non-zero, both returned
C13_Witness ==
    \E c, d \in Calls :
        /\ killRc[c] = "raised"
        /\ killRc[d] = "nonzero"
        /\ Returned(c)
        /\ Returned(d)

\* C14: under fair scheduling, and provided every permit holder eventually
\* releases, every task waiting for a permit is eventually admitted, however
\* many later callers keep arriving.
C14_WaiterEventuallyAdmitted ==
    \A t \in Tasks : (taskPc[t] = "waiting") ~> (taskPc[t] = "acquired")

\* the pool is exhausted and two tasks are queued, one behind the other
C14_Witness ==
    /\ semValue = 0
    /\ Len(waiters) >= 2
    /\ \E t \in Tasks : taskPc[t] = "acquired"

\* C15 as stated: under fair scheduling every execute() call that was made
\* eventually returns a result and has released its permit, also when the
\* command never exits and the docker kill does not succeed.
C15_EveryCallReturns ==
    \A c \in Calls :
        (pc[c] # "idle") ~> (Returned(c) /\ ~holds[c] /\ releases[c] = 1)

\* ---- the three classes of result, and what the bot shows for each ----
IsTimeoutClass(r) == r.timed_out /\ r.error = None /\ r.exit_code = -1
IsFailureClass(r) == ~r.timed_out /\ r.error # None /\ r.exit_code = -1
IsExitClass(r) == ~r.timed_out /\ r.error = None

\* _execute_in_sandbox, bot.py lines 325-329: how the output shown starts
OutputPrefix(r) ==
    IF r.timed_out THEN "Command timed out"
    ELSE IF r.error # None /\ r.error # "" THEN "Error: "
    ELSE ""

\* C16: every result is in exactly one of three classes that a caller can
\* tell apart: timeout (timed_out, no error, exit_code -1), crash or launch
\* failure (error set, not timed_out, exit_code -1), ordinary exit (neither
\* flag, exit_code of the process); timed_out and error are never both set.
C16_ThreeResultClasses ==
    \A c \in Calls :
        Returned(c) =>
            LET r == result[c] IN
            /\ ~(r.timed_out /\ r.error # None)
            /\ Cardinality({k \in {"timeout", "failure", "exit"} :
                   \/ k = "timeout" /\ IsTimeoutClass(r)
                   \/ k = "failure" /\ IsFailureClass(r)
                   \/ k = "exit" /\ IsExitClass(r)}) = 1
            /\ IsTimeoutClass(r) <=> path[c] = "timeout"
            /\ IsFailureClass(r) <=> path[c] \in {"launch_failed", "read_failed"}
            /\ IsExitClass(r) <=> path[c] = "completed"
            /\ IsExitClass(r) => r.exit_code = procExit[c]
            /\ OutputPrefix(r) = "Command timed out" <=> path[c] = "timeout"
            /\ OutputPrefix(r) = "Error: "
                   <=> path[c] \in {"launch_failed", "read_failed"}

\* a timeout and a read failure side by side, then (in another run) an exit
C16_Witness ==
    \E c, d \in Calls :
        /\ Returned(c) /\ IsTimeoutClass(result[c])
        /\ Returned(d) /\ IsFailureClass(result[d]) /\ path[d] = "read_failed"

\* C17 as stated: when the caller of execute() supplies no timeout, the
\* deadline is 60 seconds for ALPINE and 120 seconds for BLACKARCH.
C17_ProfileDefaultTimeout ==
    (Prepared /\ request.timeout = NoneArg) =>
        applied_timeout = (IF request.image = BLACKARCH THEN 120 ELSE 60)

\* C17: when the caller of execute() supplies no timeout (None, or 0), the
\* deadline is default_timeout, 60 seconds, for every image; a timeout that
\* is supplied is applied as it is; and the bot's handlers always supply
\* one, 60 seconds with ALPINE and 120 seconds with BLACKARCH.
C17_DefaultTimeoutApplied ==
    Prepared =>
        /\ request.timeout \in {NoneArg, 0} =>
               applied_timeout = default_timeout /\ applied_timeout = 60
        /\ request.timeout \notin {NoneArg, 0} =>
               applied_timeout = request.timeout
        /\ via \in Handlers =>
               /\ request.timeout # NoneArg
               /\ request.image = ALPINE => applied_timeout = 60
               /\ request.image = BLACKARCH => applied_timeout = 120

\* execute(image=BLACKARCH) without a timeout gets the 60 seconds
C17_Witness ==
    /\ via = "caller"
    /\ request.image = BLACKARCH
    /\ request.timeout = NoneArg
    /\ applied_timeout = DefaultTimeout

\* ---- pull_images() ----
PullFailed(i) == pullRc[i] \in {"nonzero", "raised"}
PullStep == pullVars' # pullVars

\* C18: pull_images() never raises and takes no part in the executions: a
\* pull that fails or raises is only logged and the images after it are still
\* attempted; an image is recorded as pulled only if its docker pull exited
\* with code 0; and no step of pull_images() acquires or releases a permit
\* or changes anything of an execute() call.
C18_PullImagesContained ==
    /\ [](/\ ~pullRaised
          /\ pullPc # "failed"
          /\ images_pulled = {i \in SandboxImage : pullRc[i] = "zero"}
          /\ \A i \in SandboxImage :
                 /\ PullFailed(i) =>
                        <<"warning", i>> \in pullLog \/ <<"error", i>> \in pullLog
                 /\ pullRc[i] = "zero" => <<"info", i>> \in pullLog
          /\ \A k \in 1..Len(ImageOrder) :
                 (pullPc = "done" \/ pullAt > k) => pullRc[ImageOrder[k]] # "none"
          /\ pullPc \in {"starting", "waiting"} => pullAt \in 1..Len(ImageOrder))
    /\ [][PullStep => UNCHANGED execVars]_vars

\* the pull of the first image raised, the second image was pulled all the
\* same, and an execute() call was running meanwhile
C18_Witness ==
    /\ pullPc = "done"
    /\ pullRc[ImageOrder[1]] = "raised"
    /\ pullRc[ImageOrder[2]] = "zero"
    /\ images_pulled = {ImageOrder[2]}
    /\ \E c \in Calls : pc[c] = "running" /\ holds[c]

\* ---- check_docker_available() ----
ProbeStep == probe' # probe \/ startup' # startup

\* C19: check_docker_available() always answers with a boolean and never
\* raises: true exactly when docker info could be started and exited with
\* code 0 (the answer stands until the runtime changes); it does not touch
\* the permit pool; and post_init() consults it before it starts
\* pull_images(), which is started only on the answer true.
C19_ProbeIsBooleanAndGuardsPrewarm ==
    /\ [](/\ probe \in {"none", "true", "false"}
          /\ probe = "true" => dockerCli /\ daemonUp
          /\ probe = "false" => ~(dockerCli /\ daemonUp)
          /\ startup \in {"none", "available", "unavailable"}
          /\ pullPc # "idle" => startup = "available"
          /\ startup \in {"none", "unavailable"} =>
                 pullPc = "idle" /\ images_pulled = {})
    /\ [][/\ ProbeStep => UNCHANGED <<semVars, pc, releases>>
          /\ ProbeStep => probe' \in {"true", "false", "none"}
          /\ (probe' # probe /\ probe' # "none") =>
                 (probe' = "true" <=> docker = "ok")
          /\ startup' # startup =>
                 /\ startup' = "available" <=> docker = "ok"
                 /\ pullPc' = "starting" <=> docker = "ok"]_vars

\* post_init() found the runtime unavailable and did not start the pull;
\* later the runtime came up and a probe answered true
C19_Witness ==
    /\ startup = "unavailable"
    /\ pullPc = "idle"
    /\ probe = "true"
    /\ \E c \in Calls : holds[c]

\* ---- execute() and the images pulled in advance ----
\* the docker run process is still pulling the image or creating the
\* container: the image was not there and is pulled during the run
LazyPull(c) == cont[c] = "starting"
ExecuteStep == pc' # pc

\* C20 as stated: the deadline, cleanup and permit guarantees hold equally
\* when the image is pulled during the run, also when that pull takes longer
\* than the timeout; for the cleanup: after the timed-out result no container
\* of the call is left or still to come.
C20_LazyPullCleanedUp ==
    \A c \in Calls :
        (Returned(c) /\ path[c] = "timeout") => ~LazyPull(c)

\* C20: execute() launches without looking at _images_pulled or at the state
\* of pull_images(), and never changes them; while the image is pulled
\* during the run the deadline is enforced and the permit is given back as
\* for any run.  But a pull that outlasts the timeout is not cleaned up: the
\* docker kill finds no container and fails, the timed-out result is
\* returned, and the docker run process goes on and may start the container
\* afterwards.
C20_LaunchIgnoresPrewarm ==
    /\ [](\A c \in Calls :
            /\ pc[c] = "acquired" => ENABLED Launch(c)
            /\ (pc[c] = "running" /\ LazyPull(c)) => now <= Deadline(c)
            /\ (Returned(c) /\ path[c] = "timeout" /\ LazyPull(c)) =>
                   /\ result[c].timed_out
                   /\ result[c].exit_code = -1
                   /\ result[c].error = None
                   /\ killRc[c] \in {"nonzero", "raised"}
                   /\ ~holds[c]
                   /\ acquires[c] = 1
                   /\ releases[c] = 1
            /\ Cardinality(Holders) <= max_concurrent)
    /\ [][ExecuteStep => UNCHANGED <<pullVars, startup>>]_vars

\* nothing was pulled in advance, the runtime is healthy, the call timed out
\* while its image was still being pulled, and the pull goes on
C20_Witness ==
    \E c \in Calls :
        /\ startup = "unavailable"
        /\ images_pulled = {}
        /\ docker = "ok"
        /\ Returned(c)
        /\ path[c] = "timeout"
        /\ killRc[c] = "nonzero"
        /\ LazyPull(c)

\* C21 as stated: no two execute() invocations, concurrent or one after the
\* other, ever use the same container name.
C21_NamesNeverRepeat ==
    \A i, j \in 1..Len(issued) : i # j => issued[i].name # issued[j].name

\* C21: every invocation builds its own name, "d1337-sandbox-" followed by
\* the 16 hex digits it draws from secrets.token_hex(8), and passes it as
\* --name; the names of two invocations are equal exactly when the random
\* source gave both the same digits, which nothing in execute() rules out
\* or detects.
C21_NameFollowsToken ==
    /\ \A i, j \in 1..Len(issued) :
           issued[i].name = issued[j].name <=> issued[i].token = issued[j].token
    /\ \A t1, t2 \in Tokens :
           t1 # t2 => ContainerName(t1) # ContainerName(t2)
    /\ Prepared =>
           /\ docker_argv[4] = "--name"
           /\ docker_argv[5] = issued[Len(issued)].name
           /\ \E t \in Tokens : docker_argv[5] = "d1337-sandbox-" \o t

\* two invocations that drew different tokens and have different names
C21_Witness ==
    /\ Len(issued) = 2
    /\ issued[1].token # issued[2].token
    /\ issued[1].name # issued[2].name
    /\ docker_argv[5] = issued[2].name

\* ---- the states of an execution ----
Pending(c) == pc[c] \in {"waiting", "acquired"}
Running(c) == pc[c] \in {"running", "killwait"}
Terminal(c) == pc[c] = "done"

\* C22: an execution goes PENDING -> RUNNING -> {COMPLETED, TIMED_OUT,
\* LAUNCH_FAILED}: COMPLETED and TIMED_OUT are entered only from RUNNING,
\* that is after the process was started under a permit; a terminal state is
\* never left and its result never changes; and a call queued for a permit
\* moves nowhere but to admission.
C22_ExecutionStateMachine ==
    [][\A c \in Calls :
        /\ pc[c] = "idle" => pc'[c] \in {"idle", "waiting", "acquired"}
        /\ pc[c] = "waiting" => pc'[c] \in {"waiting", "acquired"}
        /\ pc[c] = "acquired" => pc'[c] \in {"acquired", "running", "done"}
        /\ pc[c] = "running" => pc'[c] \in {"running", "killwait", "done"}
        /\ pc[c] = "killwait" => pc'[c] \in {"killwait", "done"}
        /\ (~Terminal(c) /\ Terminal(c)') =>
               /\ path'[c] \in {"completed", "timeout", "launch_failed",
                                "read_failed"}
               /\ path'[c] \in {"completed", "timeout", "read_failed"} =>
                      /\ Running(c)
                      /\ holds[c]
                      /\ procStart[c] # NoTime
                      /\ cont[c] # "none"
               /\ path'[c] = "launch_failed" =>
                      pc[c] = "acquired" /\ holds[c] /\ cont[c] = "none"
               /\ path'[c] = "completed" => pc[c] = "running"
               /\ Returned(c)'
        /\ Terminal(c) =>
               /\ Terminal(c)'
               /\ path'[c] = path[c]
               /\ result'[c] = result[c]
               /\ nresults'[c] = nresults[c]
        /\ ~Terminal(c) => path[c] = "none" /\ result[c] = NoResult]_vars

\* with a single permit, one call has completed and another has timed out
C22_Witness ==
    \E c, d \in Calls :
        /\ path[c] = "completed"
        /\ path[d] = "timeout"
        /\ start_time[d] = NoTime
        /\ Returned(c) /\ Returned(d)
        /\ max_concurrent = 1

\* C23 as stated: a result with error set is returned only when the process
\* was never started: whenever execute() has returned a result with error set
\* and no kill was attempted, no container or docker run process started by
\* that call exists.
C23_ErrorMeansNothingStarted ==
    \A c \in Calls :
        (Returned(c) /\ result[c].error # None /\ ~killAttempted[c]) =>
            /\ cont[c] = "none"
            /\ ~Alive(c)


\* what a step can change of the execution of call x
Fate(x) == <<cont[x], procExit[x], result[x]>>

\* the step in which the docker kill issued for call c ends
KillEnds(c) == pc[c] = "killwait" /\ pc'[c] = "done"

\* C24 as stated: the docker kill of a timed-out call never terminates the
\* container of another execution nor changes what that execution observes
\* or returns.
C24_KillNeverTouchesOthers ==
    [][\A c \in Calls : KillEnds(c) =>
          \A x \in Calls \ {c} : Fate(x)' = Fate(x)]_vars

\* C24: the docker kill of a timed-out call is given the name generated for
\* that call, and it leaves alone every execution whose name differs from it.
C24_KillTargetsOwnName ==
    /\ [](\A c \in Calls : killAttempted[c] => killTarget[c] = name[c])
    /\ [][\A c \in Calls : KillEnds(c) =>
            \A x \in Calls \ {c} :
                name[x] # name[c] => Fate(x)' = Fate(x)]_vars

\* C24 witness: one call was timed out and its container killed while another
\* call, under a different name, keeps its container.
C24_Witness ==
    \E c, x \in Calls :
        /\ c # x
        /\ name[c] # name[x]
        /\ pc[c] = "done" /\ killRc[c] = "zero"
        /\ pc[x] = "running" /\ cont[x] = "live" /\ procExit[x] = NoCode


\* every piece the process wrote appears, decoded, in the returned string
Carries(string, bytes) ==
    \A i \in 1..Len(bytes) : \E j \in 1..Len(string) : string[j] = Decode(bytes)[i]

\* C25 as stated: the stdout and stderr of a timeout result carry the partial
\* output the process had produced before the deadline.
C25_TimeoutKeepsPartialOutput ==
    \A c \in Calls :
        (path[c] = "timeout" /\ result[c] # NoResult) =>
            /\ Carries(text[c].stdout, piped[c].out)
            /\ Carries(text[c].stderr, piped[c].err)

\* C25: a timeout result has an empty stdout and the fixed message "Command
\* timed out after <timeout> seconds" as stderr, whatever the process wrote
\* before the deadline; only a completed execution returns what was written.
C25_TimeoutDropsOutput ==
    \A c \in Calls :
        /\ (path[c] = "timeout" /\ result[c] # NoResult) =>
              /\ text[c].stdout = <<>>
              /\ text[c].stderr = <<"Command timed out after ",
                                    ToString(timeout[c]), " seconds">>
        /\ path[c] = "completed" =>
              /\ text[c].stdout = Decode(piped[c].out)
              /\ text[c].stderr = Decode(piped[c].err)

\* C25 witness: a call timed out after its command had written to both pipes.
C25_Witness ==
    \E c \in Calls :
        /\ path[c] = "timeout" /\ result[c].timed_out
        /\ piped[c].out # <<>>
        /\ piped[c].err # <<>>


\* C26: every docker kill that fails, whether it could not be started or it
\* exited non-zero, leaves an error record naming the container.
C26_FailedKillIsLogged ==
    \A c \in Calls :
        killRc[c] \in {"raised", "nonzero"} => killTarget[c] \in killLog


\* the handler of update c has sent its last reply
Replied(c) == bot[c].hpc = "done"

\* update c was answered after execute() had returned a result
Reported(c) == Replied(c) /\ pc[c] = "done" /\ result[c] # NoResult

\* C27: create_paste is invoked only when the output is longer than the
\* inline threshold, and a create_paste that fails does not turn a finished
\* execution into a reported failure.
C27_PasteOnlyForLongOutput ==
    \A c \in Calls :
        Reported(c) =>
            /\ bot[c].pastes > 0 => TooLong(bot[c].outlen)
            /\ bot[c].reply # "Execution failed"


\* execute() has been entered for update c
Executed(c) == pc[c] # "idle"

\* update c has left no trace in the sandbox
Untouched(c) ==
    /\ pc[c] = "idle" /\ ~holds[c] /\ acquires[c] = 0
    /\ cont[c] = "none" /\ procStart[c] = NoTime /\ result[c] = NoResult

\* C30: execute() is entered only for an update whose sender is an admin and
\* whose command has arguments; an update of a non-admin, or one without
\* arguments, is answered without a permit taken or a container started, and
\* no step of its handler changes the state of the sandbox.
C30_ExecuteOnlyBehindAdminGate ==
    /\ [](\A c \in Calls :
            /\ Executed(c) => bot[c].user \in admin_users /\ bot[c].nargs > 0
            /\ (bot[c].hpc # "idle" /\ bot[c].user \notin admin_users) =>
                  Untouched(c) /\ bot[c].reply = "Admin only command."
            /\ (bot[c].hpc # "idle" /\ bot[c].nargs = 0) => Untouched(c))
    /\ [][\A c \in Calls :
            (bot[c].hpc = "idle" /\ bot'[c].hpc # "idle") =>
                UNCHANGED execVars]_vars

\* C30 witness: a non-admin was turned away with nothing started while the
\* command of an admin runs in its container.
C30_Witness ==
    \E c, x \in Calls :
        /\ bot[c].user \notin admin_users /\ Replied(c) /\ Untouched(c)
        /\ bot[x].user \in admin_users /\ bot[x].nargs > 0
        /\ holds[x] /\ cont[x] = "live"


\* the step in which the wait for the process of call c ends by the deadline
DeadlineFires(c) ==
    /\ pc[c] = "running"
    /\ pc'[c] = "killwait" \/ path'[c] = "timeout"

\* C28: the deadline of an execution runs from the start of its process,
\* which happens with the permit held: a call waiting for a permit has no
\* deadline, no kill and no result however long it waits, and the deadline
\* fires exactly timeout seconds after the process was started.
C28_NoDeadlineWhileQueued ==
    /\ [](\A c \in Calls :
            Pending(c) =>
                /\ procStart[c] = NoTime /\ ~killAttempted[c]
                /\ path[c] = "none" /\ result[c] = NoResult)
    /\ [][\A c \in Calls :
            /\ (Pending(c) /\ Running(c)') =>
                  holds[c] /\ procStart'[c] = now
            /\ DeadlineFires(c) =>
                  holds[c] /\ now = procStart[c] + timeout[c]
            /\ (path[c] = "none" /\ path'[c] = "timeout") =>
                  pc[c] \in {"running", "killwait"}]_vars

\* C28 witness: a call has been queued for a permit for longer than its own
\* timeout and is still pending.
C28_Witness ==
    \E c \in Calls :
        /\ pc[c] = "waiting"
        /\ now - start_time[c] > timeout[c]

\* C29: the clock of execution_time_ms starts at the entry into execute(),
\* before the permit is acquired, and every result reports the time since
\* then, the wait for the permit included.
C29_ElapsedFromEntry ==
    /\ [](\A c \in Calls : Pending(c) => start_time[c] \in 0..now)
    /\ [][\A c \in Calls :
            /\ (pc[c] = "idle" /\ pc'[c] # "idle") => start_time'[c] = now
            /\ (result[c] = NoResult /\ result'[c] # NoResult) =>
                  result'[c].execution_time_ms
                      = (now - start_time[c]) * MsPerSecond]_vars

\* C29 witness: a call that waited for its permit completed by itself, not
\* timed out, with an elapsed time above its timeout.
C29_Witness ==
    \E c \in Calls :
        /\ path[c] = "completed" /\ ~result[c].timed_out
        /\ acquires[c] = 1 /\ max_concurrent < NumCalls
        /\ result[c].execution_time_ms > timeout[c] * MsPerSecond


\* the users the daily limit applies to
FreeUsers == {u \in Users : ~Unlimited(u)}

RECURSIVE SumOver(_, _)
\* the sum of the counters f[d] for the dates d of D
SumOver(f, D) ==
    IF D = {} THEN 0
    ELSE LET d == CHOOSE x \in D : TRUE IN f[d] + SumOver(f, D \ {d})

\* the handler tasks of a user whose completion returned and whose increment
\* is still to come
AwaitingIncrement(u) ==
    {s \in Slots : handlers[s].user = u /\ handlers[s].hpc = "completed"}

Cancelled(c) == path[c] # "cancelled" /\ path'[c] = "cancelled"

\* C33: a cancelled execute() leaves the permit pool consistent: a call
\* cancelled while queued never gets a permit and does not change the pool, a
\* call cancelled while holding a permit gives it back exactly once, and the
\* cancellation issues no docker kill and leaves the container as it is.
C33_CancelKeepsPoolConsistent ==
    /\ [](/\ semValue + Cardinality({c \in Calls : holds[c]}) = max_concurrent
          /\ \A c \in Calls :
                /\ holds[c] <=> InSection(c)
                /\ path[c] = "cancelled" =>
                      /\ ~holds[c] /\ pc[c] = "done"
                      /\ acquires[c] = releases[c] /\ releases[c] <= 1
                /\ \A i \in 1..Len(waiters) : pc[waiters[i]] = "waiting")
    /\ [][\A c \in Calls : Cancelled(c) =>
            /\ pc[c] = "waiting" =>
                  /\ acquires'[c] = 0 /\ releases'[c] = 0
                  /\ semValue' = semValue /\ holds' = holds
            /\ InSection(c) => releases'[c] = 1 /\ acquires'[c] = 1
            /\ killAttempted' = killAttempted
            /\ cont' = cont]_vars

\* C33 witness: one call was cancelled in the queue and another while its
\* container was running, which still runs with no kill attempted; the pool
\* is full again.
C33_Witness ==
    \E c, x \in Calls :
        /\ path[c] = "cancelled" /\ acquires[c] = 0
        /\ path[x] = "cancelled" /\ releases[x] = 1
        /\ cont[x] = "live" /\ ~killAttempted[x]
        /\ semValue = max_concurrent


\* C34: execute(timeout=0) runs with the same deadline as execute() without
\* a timeout, namely default_timeout, and the deadline handed to wait_for is
\* never zero.
C34_ZeroTimeoutMeansDefault ==
    Prepared =>
        /\ request.timeout = 0 => applied_timeout = default_timeout
        /\ request.timeout = NoneArg => applied_timeout = default_timeout
        /\ applied_timeout # 0

\* C34 witness: a caller passed timeout=0 and the call runs with the default
\* of 60 seconds.
C34_Witness ==
    /\ Prepared
    /\ request.timeout = 0
    /\ applied_timeout = DefaultTimeout

(***************************************************************************)
(* C35: pastes                                                             *)
(***************************************************************************)
\* the create_paste calls that returned the id, oldest first
CallsFor(paste_id) ==
    {i \in 1..Len(created) : IdInUrl(created[i].url) = paste_id}

\* the latest of them, 0 when the id was never returned
LastFor(paste_id) ==
    IF CallsFor(paste_id) = {} THEN 0
    ELSE CHOOSE i \in CallsFor(paste_id) : \A j \in CallsFor(paste_id) : j <= i

Live(i) == ptime < created[i].at + PASTE_TTL

\* get_paste on the id gives what call i was given
Returns(paste_id, i) ==
    LET got == get_paste(paste_id) IN
    /\ got.some
    /\ got.paste.content = created[i].args.content
    /\ got.paste.command = created[i].args.command
    /\ got.paste.exit_code = created[i].args.exit_code
    /\ got.paste.execution_time_ms = created[i].args.execution_time_ms

Gone(paste_id) ==
    /\ get_paste(paste_id) = NonePaste
    /\ handle_paste_html(paste_id) = NotFound
    /\ handle_paste_raw(paste_id) = NotFound

\* C35 as stated: for as long as the 1200 seconds of a create_paste call have
\* not elapsed, get_paste on the id of its URL returns what that call was
\* given; an id whose calls have all expired, or that was never created,
\* gives None and 404 from both handlers.
C35_PasteRoundTripsUntilExpiry ==
    /\ \A i \in 1..Len(created) :
          Live(i) => Returns(IdInUrl(created[i].url), i)
    /\ \A paste_id \in AllIds :
          (\A i \in CallsFor(paste_id) : ~Live(i)) => Gone(paste_id)

\* C35 amended: get_paste on an id returns what the latest create_paste call
\* that drew this id was given, for as long as the 1200 seconds of that call
\* have not elapsed; after that, and for an id never created, get_paste
\* returns None and both handlers answer 404.
C35_LatestPasteRoundTrips ==
    \A paste_id \in AllIds :
        LET i == LastFor(paste_id) IN
        IF i # 0 /\ Live(i) THEN Returns(paste_id, i) ELSE Gone(paste_id)

\* the first paste has expired and reads as None, the second and third drew
\* the same id with different output, and the raw handler has just served the
\* third one's content
C35_Witness ==
    /\ Len(created) = 3
    /\ ~Live(1) /\ Live(2) /\ Live(3)
    /\ created[1].url # created[2].url
    /\ created[2].url = created[3].url
    /\ created[2].args # created[3].args
    /\ get_paste(IdInUrl(created[1].url)) = NonePaste
    /\ Returns(IdInUrl(created[3].url), 3)
    /\ response.route = "raw"
    /\ response.status = 200
    /\ response.text = created[3].args.content
    /\ response.text # created[2].args.content
====
